---- MODULE Spec2Model ----
(***************************************************************************)
(* The reconcile operation of plugins/modules/network.py                   *)
(* (NetworkModule.run): one invocation resolves the project, looks the     *)
(* network up by name, and then creates, updates or deletes it.  Remote     *)
(* calls are the atomic steps; the local computation between two remote     *)
(* calls belongs to the step of the call that follows it.                   *)
(***************************************************************************)
EXTENDS Integers, Sequences, FiniteSets, TLC

(***************************************************************************)
(* Python values, tagged with their type so that None, False, 0 and ""      *)
(* stay distinct values that are all falsy.                                 *)
(***************************************************************************)
None == <<"none">>
PyBool(b) == <<"bool", b>>
PyInt(n) == <<"int", n>>
PyStr(s) == <<"str", s>>
PyDict(d) == <<"dict", d>>

\* Python truthiness, as used by `if provider_physical_network:` etc.
Truthy(v) ==
    CASE v[1] = "none" -> FALSE
      [] v[1] = "bool" -> v[2]
      [] v[1] = "int"  -> v[2] # 0
      [] v[1] = "str"  -> v[2] # ""
      [] v[1] = "dict" -> DOMAIN v[2] # {}

\* dict[k] = v
Put(d, k, v) == [x \in (DOMAIN d) \cup {k} |-> IF x = k THEN v ELSE d[x]]

EmptyDict == [x \in {} |-> None]

(***************************************************************************)
(* Bounds.                                                                  *)
(***************************************************************************)
\* Invocations started in one behaviour.
MaxRuns == 3
\* Options a caller sets besides name and state in one invocation.
MaxSupplied == 1

(***************************************************************************)
(* The module's options (argument_spec) and the values callers pass.        *)
(* None is an option the caller left out.                                   *)
(***************************************************************************)
OptionNames ==
    {"shared", "admin_state_up", "external", "provider_physical_network",
     "provider_network_type", "provider_segmentation_id", "project",
     "port_security_enabled", "mtu_size", "dns_domain"}

OptionValues ==
    [o \in OptionNames |->
        CASE o = "shared" -> {PyBool(TRUE)}
          [] o = "admin_state_up" -> {PyBool(FALSE)}
          [] o = "external" -> {PyBool(TRUE)}
          [] o = "provider_physical_network" -> {PyStr("physnet1"), PyStr("")}
          [] o = "provider_network_type" -> {PyStr("vlan"), PyStr("")}
          [] o = "provider_segmentation_id" -> {PyInt(101), PyInt(0)}
          [] o = "project" -> {PyStr("p1"), PyStr("ghost")}
          [] o = "port_security_enabled" -> {PyBool(FALSE), PyBool(TRUE)}
          [] o = "mtu_size" -> {PyInt(1400)}
          [] o = "dns_domain" -> {PyStr("example.org.")}]

NoOptions == [o \in OptionNames |-> None]

RECURSIVE SuppliedUpTo(_)
SuppliedUpTo(n) ==
    IF n = 0 THEN {NoOptions}
    ELSE LET less == SuppliedUpTo(n - 1)
         IN  less \cup UNION { UNION { {[a EXCEPT ![o] = v] : v \in OptionValues[o]}
                                       : o \in OptionNames } : a \in less }

TaskArgs ==
    { [state |-> s, name |-> PyStr("net1"), options |-> a] :
        s \in {None, PyStr("present"), PyStr("absent")}, a \in SuppliedUpTo(MaxSupplied) }

\* argument_spec with admin_state_up defaulting to False.
argument_spec_admin_down(args) ==
    LET o == args.options
        dflt(k, d) == IF o[k] = None THEN d ELSE o[k]
    IN  [state |-> IF args.state = None THEN PyStr("present") ELSE args.state,
         name |-> args.name,
         shared |-> dflt("shared", PyBool(FALSE)),
         admin_state_up |-> dflt("admin_state_up", PyBool(FALSE)),
         external |-> dflt("external", PyBool(FALSE)),
         provider_physical_network |-> o["provider_physical_network"],
         provider_network_type |-> o["provider_network_type"],
         provider_segmentation_id |-> o["provider_segmentation_id"],
         project |-> o["project"],
         port_security_enabled |-> o["port_security_enabled"],
         mtu_size |-> o["mtu_size"],
         dns_domain |-> o["dns_domain"]]

\* argument_spec: the defaults the host runtime fills in for options left out.
argument_spec(args) ==
    LET o == args.options
        dflt(k, d) == IF o[k] = None THEN d ELSE o[k]
    IN  [state |-> IF args.state = None THEN PyStr("present") ELSE args.state,
         name |-> args.name,
         shared |-> dflt("shared", PyBool(FALSE)),
         admin_state_up |-> dflt("admin_state_up", PyBool(TRUE)),
         external |-> dflt("external", PyBool(FALSE)),
         provider_physical_network |-> o["provider_physical_network"],
         provider_network_type |-> o["provider_network_type"],
         provider_segmentation_id |-> o["provider_segmentation_id"],
         project |-> o["project"],
         port_security_enabled |-> o["port_security_enabled"],
         mtu_size |-> o["mtu_size"],
         dns_domain |-> o["dns_domain"]]

NoParams == [state |-> None]

(***************************************************************************)
(* The remote store: the identity service's projects and the network        *)
(* service's networks, as the SDK connection (self.conn) shows them.        *)
(***************************************************************************)
\* Projects the identity service knows, by the name callers use.
Projects == [n \in {"p1"} |-> [id |-> PyStr("pid-p1")]]

\* The project of the credentials the module runs with.
OwnProjectId == PyStr("pid-own")

\* The fields of a network as the module reads them (the RETURN block).
NetFields ==
    {"id", "name", "tenant_id", "shared", "admin_state_up", "router:external",
     "mtu", "port_security_enabled", "dns_domain", "provider:physical_network",
     "provider:network_type", "provider:segmentation_id"}

\* The network service's name for each attribute of a create or update call.
\* mtu_size is no attribute of the SDK's Network resource (it is named mtu).
AttrField ==
    [a \in {"name", "project_id", "shared", "admin_state_up", "is_router_external",
            "mtu", "port_security_enabled", "dns_domain", "provider_physical_network",
            "provider_network_type", "provider_segmentation_id"} |->
        CASE a = "project_id" -> "tenant_id"
          [] a = "is_router_external" -> "router:external"
          [] a = "provider_physical_network" -> "provider:physical_network"
          [] a = "provider_network_type" -> "provider:network_type"
          [] a = "provider_segmentation_id" -> "provider:segmentation_id"
          [] OTHER -> a]

\* What the network service fills in for an attribute the call leaves out
\* ("Network will use OpenStack defaults if this option is not provided").
StoreDefault ==
    [f \in NetFields \ {"id", "name"} |->
        CASE f = "tenant_id" -> OwnProjectId
          [] f = "shared" -> PyBool(FALSE)
          [] f = "admin_state_up" -> PyBool(TRUE)
          [] f = "router:external" -> PyBool(FALSE)
          [] f = "mtu" -> PyInt(1500)
          [] f = "port_security_enabled" -> PyBool(TRUE)
          [] f = "dns_domain" -> PyStr("")
          [] f = "provider:physical_network" -> None
          [] f = "provider:network_type" -> PyStr("vxlan")
          [] f = "provider:segmentation_id" -> PyInt(7)]

\* The value an attribute dict gives a network field, if it gives one.
Given(attrs, f) ==
    {attrs[a] : a \in {k \in (DOMAIN attrs) \cap (DOMAIN AttrField) :
                          AttrField[k] = f /\ attrs[k] # None}}

\* conn.get_project(name_or_id)
get_project(project) ==
    IF project[2] \in DOMAIN Projects THEN PyDict(Projects[project[2]]) ELSE None

\* The networks conn.get_network(name, filters) searches among.
search_networks(nets, name, filters) ==
    {n \in nets : n["name"] = name
                  /\ (filters = None \/ n["tenant_id"] = filters[2]["tenant_id"])}

\* conn.network.create_network(**attrs): the network the service makes.
create_network(attrs, id) ==
    [f \in NetFields |->
        IF f = "id" THEN id
        ELSE IF Given(attrs, f) # {} THEN CHOOSE v \in Given(attrs, f) : TRUE
        ELSE StoreDefault[f]]

\* conn.network.update_network(id, **attrs): the network after the update.
update_network(n, attrs) ==
    [f \in NetFields |->
        IF f # "id" /\ Given(attrs, f) # {} THEN CHOOSE v \in Given(attrs, f) : TRUE
        ELSE n[f]]

\* "Segmentation ID can only updated on VLAN networks": the service refuses.
update_refused(n, attrs) ==
    "provider_segmentation_id" \in DOMAIN attrs
    /\ n["provider:network_type"] # PyStr("vlan")

(***************************************************************************)
(* NetworkModule.run, the local computation.                                *)
(***************************************************************************)
\* OpenStackModule.check_versioned(**kwargs): the arguments the installed SDK
\* supports, with the values they were given (None for an option left out).
check_versioned(kw) == kw

\* kwargs as the present branch has it before `if not net`.
present_kwargs(prm, project_id) ==
    LET k0 == check_versioned(
                  [a \in {"mtu_size", "port_security_enabled", "dns_domain"} |->
                      CASE a = "mtu_size" -> prm.mtu_size
                        [] a = "port_security_enabled" -> prm.port_security_enabled
                        [] a = "dns_domain" -> prm.dns_domain])
        k1 == IF Truthy(prm.provider_physical_network)
              THEN Put(k0, "provider_physical_network", prm.provider_physical_network)
              ELSE k0
        k2 == IF Truthy(prm.provider_network_type)
              THEN Put(k1, "provider_network_type", prm.provider_network_type)
              ELSE k1
        k3 == IF Truthy(prm.provider_segmentation_id)
              THEN Put(k2, "provider_segmentation_id", prm.provider_segmentation_id)
              ELSE k2
        k4 == IF project_id # None THEN Put(k3, "project_id", project_id) ELSE k3
        k5 == Put(k4, "shared", prm.shared)
        k6 == Put(k5, "admin_state_up", prm.admin_state_up)
    IN  Put(k6, "is_router_external", prm.external)

\* The mapping with is_router_external mapped to the wrong field.
argument_mappings_wrong(arg) ==
    CASE arg = "is_router_external" -> "shared"
      [] arg = "provider_segmentation_id" -> "provider:segmentation_id"
      [] arg = "provider_network_type" -> "provider:network_type"
      [] arg = "provider_physical_network" -> "provider:physical_network"
      [] OTHER -> arg

\* Mappings from argument name to field in Network object; .get(arg, arg).
argument_mappings(arg) ==
    CASE arg = "is_router_external" -> "router:external"
      [] arg = "provider_segmentation_id" -> "provider:segmentation_id"
      [] arg = "provider_network_type" -> "provider:network_type"
      [] arg = "provider_physical_network" -> "provider:physical_network"
      [] OTHER -> arg

non_updatables == <<"provider_network_type", "provider_physical_network">>

\* `arg in kwargs and kwargs[arg] != net[net_property]`
differs(kwargs, n, arg) ==
    arg \in DOMAIN kwargs /\ kwargs[arg] # n[argument_mappings(arg)]

\* The non_updatables loop reaches fail_json.
immutable_conflict(kwargs, n) ==
    \E i \in 1..Len(non_updatables) : differs(kwargs, n, non_updatables[i])

updatables ==
    <<"shared", "admin_state_up", "is_router_external", "mtu",
      "port_security_enabled", "dns_domain", "provider_segmentation_id">>

\* The filter loop without its `kwargs[arg] != None` test.
update_kwargs_nulls(kwargs, n) ==
    LET args == {updatables[i] : i \in 1..Len(updatables)}
        keep == {arg \in args : differs(kwargs, n, arg)}
    IN  [arg \in keep |-> kwargs[arg]]

\* The filter loop without its comparison against the remote network.
update_kwargs_unfiltered(kwargs, n) ==
    LET args == {updatables[i] : i \in 1..Len(updatables)}
        keep == {arg \in args : arg \in DOMAIN kwargs /\ kwargs[arg] # None}
    IN  [arg \in keep |-> kwargs[arg]]

\* update_kwargs as the filter loop leaves it.
update_kwargs(kwargs, n) ==
    LET args == {updatables[i] : i \in 1..Len(updatables)}
        keep == {arg \in args : differs(kwargs, n, arg) /\ kwargs[arg] # None}
    IN  [arg \in keep |-> kwargs[arg]]

(***************************************************************************)
(* State.                                                                   *)
(***************************************************************************)
VARIABLES
    networks,    \* the network service's networks
    created,     \* networks the service has made so far (the next id)
    runs,        \* invocations started so far
    pc,          \* per invocation slot: where run() is
    params,      \* self.params
    project_id,  \* project_id as run() has it
    net,         \* net as run() has it
    found,       \* what get_network returned to this invocation
    before,      \* the networks when the invocation began
    calls,       \* the remote calls the invocation has made, in order
    result,      \* how the invocation ended: exit(...), fail_json(...), exception
    first        \* when the same task is applied again: how the first run went

vars == <<networks, created, runs, pc, params, project_id, net, found, before, calls, result, first>>

NoResult == [kind |-> "none"]
NoFirst == [rerun |-> FALSE]
NotLooked == <<"unset">>

Call(op, target, attrs) == [op |-> op, target |-> target, attrs |-> attrs]

\* self.exit(**out), self.fail_json(msg=...), and an exception of the SDK
exit(out) == [kind |-> "exit", out |-> out]
fail_json(msg) == [kind |-> "fail_json", msg |-> msg]
exception(msg) == [kind |-> "exception", msg |-> msg]

\* self.exit(changed=changed, network=net): the id left out.
present_exit_no_id(changed, n) ==
    exit([k \in {"changed", "network"} |->
             CASE k = "changed" -> PyBool(changed)
               [] k = "network" -> n])

\* `changed` left at its initial False whatever the branch did.
present_exit_stale(changed, n) ==
    exit([k \in {"changed", "network", "id"} |->
             CASE k = "changed" -> PyBool(FALSE)
               [] k = "network" -> n
               [] k = "id" -> n[2]["id"]])

\* self.exit(changed=changed, network=net, id=net['id'])
present_exit(changed, n) ==
    exit([k \in {"changed", "network", "id"} |->
             CASE k = "changed" -> PyBool(changed)
               [] k = "network" -> n
               [] k = "id" -> n[2]["id"]])

\* update_network called inside the filter loop, once for each field to change.
update_calls_per_field(id, attrs) ==
    LET Changes(arg) == arg \in DOMAIN attrs
        args == SelectSeq(updatables, Changes)
    IN  [i \in 1..Len(args) |-> Call("update_network", id, [x \in {args[i]} |-> attrs[x]])]

\* The remote calls of `if update_kwargs: ... update_network(net["id"], **update_kwargs)`
update_calls(id, attrs) == <<Call("update_network", id, attrs)>>

\* `filters` built from the project's name where its id belongs.
filters_of_name(pid) ==
    IF pid = None THEN None
    ELSE PyDict([tenant_id |->
                    PyStr(CHOOSE nm \in DOMAIN Projects : Projects[nm].id = pid)])

\* `filters` as run() passes it to get_network
filters_of(pid) == IF pid = None THEN None ELSE PyDict([tenant_id |-> pid])

Init ==
    /\ networks = {}
    /\ created = 0
    /\ runs = 0
    /\ pc = [p \in {1} |-> "idle"]
    /\ params = [p \in {1} |-> NoParams]
    /\ project_id = [p \in {1} |-> None]
    /\ net = [p \in {1} |-> None]
    /\ found = [p \in {1} |-> NotLooked]
    /\ before = [p \in {1} |-> {}]
    /\ calls = [p \in {1} |-> <<>>]
    /\ result = [p \in {1} |-> NoResult]
    /\ first = [p \in {1} |-> NoFirst]

\* `if project is not None` taken for false: straight to the lookup.
first_call_lookup(prm) == "get_network"

\* The remote call run() makes first: `if project is not None: ... else: ...`
first_call(prm) == IF prm.project # None THEN "get_project" ELSE "get_network"

\* run() up to its first remote call.
Begin(p, prm, fst) ==
    /\ runs < MaxRuns
    /\ runs' = runs + 1
    /\ params' = [params EXCEPT ![p] = prm]
    /\ pc' = [pc EXCEPT ![p] = first_call(prm)]
    /\ project_id' = [project_id EXCEPT ![p] = None]
    /\ net' = [net EXCEPT ![p] = None]
    /\ found' = [found EXCEPT ![p] = NotLooked]
    /\ before' = [before EXCEPT ![p] = networks]
    /\ calls' = [calls EXCEPT ![p] = <<>>]
    /\ result' = [result EXCEPT ![p] = NoResult]
    /\ first' = [first EXCEPT ![p] = fst]
    /\ UNCHANGED <<networks, created>>

\* The host runtime runs the module with a task's arguments.
Invoke(p) ==
    /\ pc[p] = "idle"
    /\ \E args \in TaskArgs : Begin(p, argument_spec(args), NoFirst)

\* The same task is applied a second time, right after the first.
Reapply(p) ==
    /\ pc[p] = "done"
    /\ Begin(p, params[p],
             [rerun |-> TRUE, result |-> result[p], found |-> found[p],
              networks |-> networks])

\* The module's process ends; nothing of the invocation is kept.
Return(p) ==
    /\ pc[p] = "done"
    /\ pc' = [pc EXCEPT ![p] = "idle"]
    /\ params' = [params EXCEPT ![p] = NoParams]
    /\ project_id' = [project_id EXCEPT ![p] = None]
    /\ net' = [net EXCEPT ![p] = None]
    /\ found' = [found EXCEPT ![p] = NotLooked]
    /\ before' = [before EXCEPT ![p] = {}]
    /\ calls' = [calls EXCEPT ![p] = <<>>]
    /\ result' = [result EXCEPT ![p] = NoResult]
    /\ first' = [first EXCEPT ![p] = NoFirst]
    /\ UNCHANGED <<networks, created, runs>>

Finish(p, res) ==
    /\ pc' = [pc EXCEPT ![p] = "done"]
    /\ result' = [result EXCEPT ![p] = res]

\* get_project without the `if proj is None` test: an unknown project is no filter.
GetProjectUnchecked(p) ==
    /\ pc[p] = "get_project"
    /\ calls' = [calls EXCEPT ![p] = Append(@, Call("get_project", params[p].project, EmptyDict))]
    /\ LET proj == get_project(params[p].project)
       IN  project_id' = [project_id EXCEPT ![p] = IF proj = None THEN None ELSE proj[2].id]
    /\ pc' = [pc EXCEPT ![p] = "get_network"]
    /\ UNCHANGED <<networks, created, runs, params, net, found, before, result, first>>

\* proj = self.conn.get_project(project)
GetProject(p) ==
    /\ pc[p] = "get_project"
    /\ calls' = [calls EXCEPT ![p] = Append(@, Call("get_project", params[p].project, EmptyDict))]
    /\ LET proj == get_project(params[p].project)
       IN  IF proj = None
           THEN /\ Finish(p, fail_json(<<"Project %s could not be found", params[p].project>>))
                /\ UNCHANGED project_id
           ELSE /\ project_id' = [project_id EXCEPT ![p] = proj[2].id]
                /\ pc' = [pc EXCEPT ![p] = "get_network"]
                /\ UNCHANGED result
    /\ UNCHANGED <<networks, created, runs, params, net, found, before, first>>

\* net = self.conn.get_network(name, filters=filters)
GetNetwork(p) ==
    /\ pc[p] = "get_network"
    /\ LET filters == filters_of(project_id[p])
           matches == search_networks(networks, params[p].name, filters)
       IN  /\ calls' = [calls EXCEPT ![p] = Append(@, Call("get_network", params[p].name, filters))]
           /\ IF Cardinality(matches) > 1
              THEN /\ Finish(p, exception(<<"Multiple matches found for %s", params[p].name>>))
                   /\ UNCHANGED <<net, found>>
              ELSE /\ net' = [net EXCEPT ![p] =
                                 IF matches = {} THEN None
                                 ELSE PyDict(CHOOSE n \in matches : TRUE)]
                   /\ found' = [found EXCEPT ![p] = net'[p]]
                   /\ pc' = [pc EXCEPT ![p] = "branch"]
                   /\ UNCHANGED result
    /\ UNCHANGED <<networks, created, runs, params, project_id, before, first>>

InPresent(p) == pc[p] = "branch" /\ params[p].state = PyStr("present")
InAbsent(p) == pc[p] = "branch" /\ params[p].state = PyStr("absent")

kwargs_of(p) == present_kwargs(params[p], project_id[p])

\* The create made only if a second look still finds no network; the network
\* another invocation made meanwhile is taken as found.
CreateNetworkLookingAgain(p) ==
    /\ InPresent(p)
    /\ ~Truthy(net[p])
    /\ LET attrs == Put(kwargs_of(p), "name", params[p].name)
           new == create_network(attrs, created + 1)
           there == search_networks(networks, params[p].name, filters_of(project_id[p]))
       IN  IF there # {}
           THEN /\ net' = [net EXCEPT ![p] = PyDict(CHOOSE n \in there : TRUE)]
                /\ Finish(p, present_exit(FALSE, PyDict(CHOOSE n \in there : TRUE)))
                /\ UNCHANGED <<calls, networks, created>>
           ELSE /\ calls' = [calls EXCEPT ![p] = Append(@, Call("create_network", None, attrs))]
                /\ networks' = networks \cup {new}
                /\ created' = created + 1
                /\ net' = [net EXCEPT ![p] = PyDict(new)]
                /\ Finish(p, present_exit(TRUE, PyDict(new)))
    /\ UNCHANGED <<runs, params, project_id, found, before, first>>

\* if not net: net = self.conn.network.create_network(name=name, **kwargs)
CreateNetwork(p) ==
    /\ InPresent(p)
    /\ ~Truthy(net[p])
    /\ LET attrs == Put(kwargs_of(p), "name", params[p].name)
           new == create_network(attrs, created + 1)
       IN  /\ calls' = [calls EXCEPT ![p] = Append(@, Call("create_network", None, attrs))]
           /\ networks' = networks \cup {new}
           /\ created' = created + 1
           /\ net' = [net EXCEPT ![p] = PyDict(new)]
           /\ Finish(p, present_exit(TRUE, PyDict(new)))
    /\ UNCHANGED <<runs, params, project_id, found, before, first>>

\* The non_updatables check fails the module.
FailNonUpdatable(p) ==
    /\ InPresent(p)
    /\ Truthy(net[p])
    /\ immutable_conflict(kwargs_of(p), net[p][2])
    /\ Finish(p, fail_json(<<"The following parameters cannot be updated: %s. You will need to use state: absent and recreate.",
                             non_updatables>>))
    /\ UNCHANGED <<networks, created, runs, params, project_id, net, found, before, calls, first>>

\* if update_kwargs: net = self.conn.network.update_network(net["id"], **update_kwargs)
UpdateNetwork(p) ==
    /\ InPresent(p)
    /\ Truthy(net[p])
    /\ ~immutable_conflict(kwargs_of(p), net[p][2])
    /\ LET attrs == update_kwargs(kwargs_of(p), net[p][2])
           id == net[p][2]["id"]
           stored == {n \in networks : n["id"] = id}
       IN  /\ attrs # EmptyDict
           /\ calls' = [calls EXCEPT ![p] = @ \o update_calls(id, attrs)]
           /\ IF stored = {}
              THEN /\ Finish(p, exception(<<"No Network found for %s", id>>))
                   /\ UNCHANGED <<networks, net>>
              ELSE LET old == CHOOSE n \in stored : TRUE
                       new == update_network(old, attrs)
                   IN  IF update_refused(old, attrs)
                       THEN /\ Finish(p, exception(<<"Only VLAN type networks can be updated.", id>>))
                            /\ UNCHANGED <<networks, net>>
                       ELSE /\ networks' = (networks \ {old}) \cup {new}
                            /\ net' = [net EXCEPT ![p] = PyDict(new)]
                            /\ Finish(p, present_exit(TRUE, PyDict(new)))
    /\ UNCHANGED <<created, runs, params, project_id, found, before, first>>

\* update_kwargs is empty: self.exit(changed=False, network=net, id=net['id'])
ExitUnchanged(p) ==
    /\ InPresent(p)
    /\ Truthy(net[p])
    /\ ~immutable_conflict(kwargs_of(p), net[p][2])
    /\ update_kwargs(kwargs_of(p), net[p][2]) = EmptyDict
    /\ Finish(p, present_exit(FALSE, net[p]))
    /\ UNCHANGED <<networks, created, runs, params, project_id, net, found, before, calls, first>>

\* The absent branch that calls delete_network without the `if not net` test.
ExitAbsentDeleting(p) ==
    /\ InAbsent(p)
    /\ ~Truthy(net[p])
    /\ calls' = [calls EXCEPT ![p] = Append(@, Call("delete_network", params[p].name, EmptyDict))]
    /\ Finish(p, exit([k \in {"changed"} |-> PyBool(TRUE)]))
    /\ UNCHANGED <<networks, created, runs, params, project_id, net, found, before, first>>

\* state == 'absent', not net: self.exit(changed=False)
ExitAbsent(p) ==
    /\ InAbsent(p)
    /\ ~Truthy(net[p])
    /\ Finish(p, exit([k \in {"changed"} |-> PyBool(FALSE)]))
    /\ UNCHANGED <<networks, created, runs, params, project_id, net, found, before, calls, first>>

\* state == 'absent', net: self.conn.delete_network(name); self.exit(changed=True)
DeleteNetwork(p) ==
    /\ InAbsent(p)
    /\ Truthy(net[p])
    /\ LET named == search_networks(networks, params[p].name, None)
       IN  /\ calls' = [calls EXCEPT ![p] = Append(@, Call("delete_network", params[p].name, EmptyDict))]
           /\ IF Cardinality(named) > 1
              THEN /\ Finish(p, exception(<<"Multiple matches found for %s", params[p].name>>))
                   /\ UNCHANGED networks
              ELSE /\ networks' = networks \ named
                   /\ Finish(p, exit([k \in {"changed"} |-> PyBool(TRUE)]))
    /\ UNCHANGED <<created, runs, params, project_id, net, found, before, first>>

\* One invocation at a time: the module is run to completion before the next.
Next ==
    \/ \E p \in DOMAIN pc : Invoke(p)
    \/ \E p \in DOMAIN pc : Reapply(p)
    \/ \E p \in DOMAIN pc : Return(p)
    \/ \E p \in DOMAIN pc : GetProject(p)
    \/ \E p \in DOMAIN pc : GetNetwork(p)
    \/ \E p \in DOMAIN pc : CreateNetwork(p)
    \/ \E p \in DOMAIN pc : FailNonUpdatable(p)
    \/ \E p \in DOMAIN pc : UpdateNetwork(p)
    \/ \E p \in DOMAIN pc : ExitUnchanged(p)
    \/ \E p \in DOMAIN pc : ExitAbsent(p)
    \/ \E p \in DOMAIN pc : DeleteNetwork(p)

Spec == Init /\ [][Next]_vars

(***************************************************************************)
(* Two invocations at once: two tasks (two hosts, two plays) run the module *)
(* against the same cloud, and their remote calls interleave freely.  run() *)
(* takes no lock and holds no state between its calls but its own locals.   *)
(***************************************************************************)
Slots == {1, 2}

\* The tasks two invocations at once are given.
ConcurrentOptions ==
    {NoOptions,
     [NoOptions EXCEPT !["project"] = PyStr("p1")],
     [NoOptions EXCEPT !["provider_network_type"] = PyStr("vlan")],
     [NoOptions EXCEPT !["shared"] = PyBool(TRUE)]}

ConcurrentTaskArgs ==
    { [state |-> s, name |-> PyStr("net1"), options |-> a] :
        s \in {PyStr("present"), PyStr("absent")}, a \in ConcurrentOptions }

InitConcurrent ==
    /\ networks = {}
    /\ created = 0
    /\ runs = 0
    /\ pc = [p \in Slots |-> "idle"]
    /\ params = [p \in Slots |-> NoParams]
    /\ project_id = [p \in Slots |-> None]
    /\ net = [p \in Slots |-> None]
    /\ found = [p \in Slots |-> NotLooked]
    /\ before = [p \in Slots |-> {}]
    /\ calls = [p \in Slots |-> <<>>]
    /\ result = [p \in Slots |-> NoResult]
    /\ first = [p \in Slots |-> NoFirst]

InvokeConcurrent(p) ==
    /\ pc[p] = "idle"
    /\ \E args \in ConcurrentTaskArgs : Begin(p, argument_spec(args), NoFirst)

NextConcurrent ==
    \/ \E p \in DOMAIN pc : InvokeConcurrent(p)
    \/ \E p \in DOMAIN pc : Return(p)
    \/ \E p \in DOMAIN pc : GetProject(p)
    \/ \E p \in DOMAIN pc : GetNetwork(p)
    \/ \E p \in DOMAIN pc : CreateNetwork(p)
    \/ \E p \in DOMAIN pc : FailNonUpdatable(p)
    \/ \E p \in DOMAIN pc : UpdateNetwork(p)
    \/ \E p \in DOMAIN pc : ExitUnchanged(p)
    \/ \E p \in DOMAIN pc : ExitAbsent(p)
    \/ \E p \in DOMAIN pc : DeleteNetwork(p)

SpecConcurrent == InitConcurrent /\ [][NextConcurrent]_vars

(***************************************************************************)
(* What the claims speak of.                                                *)
(***************************************************************************)
Present == PyStr("present")
Absent == PyStr("absent")

Done(p) == pc[p] = "done"

Mutating == {"create_network", "update_network", "delete_network"}

\* The positions in calls[p] of the calls of the operations in ops.
CallsOf(p, ops) == {i \in 1..Len(calls[p]) : calls[p][i].op \in ops}

Exited(res) == res.kind = "exit"
ReportsChanged(res, b) == Exited(res) /\ res.out["changed"] = PyBool(b)

\* The lookup returned, and returned a network / no network.
FoundNetwork(p) == found[p] # NotLooked /\ found[p] # None
FoundNothing(p) == found[p] = None

(***************************************************************************)
(* C1. Applying a state=present task twice, starting where the lookup finds *)
(* no network of that name: the first run reports changed=true, the second  *)
(* reports changed=false, makes no create, update or delete call, and       *)
(* leaves the networks as the first run left them.                          *)
(***************************************************************************)
C1_Idempotent ==
    \A p \in DOMAIN pc :
        (/\ Done(p)
         /\ first[p].rerun
         /\ params[p].state = Present
         /\ first[p].found = None)
        => /\ ReportsChanged(first[p].result, TRUE)
           /\ ReportsChanged(result[p], FALSE)
           /\ CallsOf(p, Mutating) = {}
           /\ networks = first[p].networks

\* A task that sets an option has been applied twice to a network it created.
C1_Witness ==
    \E p \in DOMAIN pc :
        /\ Done(p)
        /\ first[p].rerun
        /\ params[p].state = Present
        /\ first[p].found = None
        /\ params[p].port_security_enabled = None
        /\ params[p].provider_segmentation_id = PyInt(101)
        /\ FoundNetwork(p)

(***************************************************************************)
(* C2. An invocation makes at most one mutating remote call                 *)
(* (create_network, update_network, delete_network), whatever its input     *)
(* and whatever the networks are.                                           *)
(***************************************************************************)
C2_AtMostOneMutation ==
    \A p \in DOMAIN pc : Cardinality(CallsOf(p, Mutating)) <= 1

\* An update that changes two fields at once was made with one call.
C2_Witness ==
    \E p \in DOMAIN pc :
        /\ Done(p)
        /\ \E i \in CallsOf(p, {"update_network"}) :
               Cardinality(DOMAIN calls[p][i].attrs) >= 2

(***************************************************************************)
(* C3. state=present on an existing network, with provider_network_type or  *)
(* provider_physical_network supplied and different from the remote         *)
(* 'provider:network_type' / 'provider:physical_network': the invocation    *)
(* fails with the cannot-be-updated error, makes no mutating call, and the  *)
(* networks are as they were.                                               *)
(***************************************************************************)
ImmutableOptions == {"provider_network_type", "provider_physical_network"}

RemoteFieldOf(o) ==
    CASE o = "provider_network_type" -> "provider:network_type"
      [] o = "provider_physical_network" -> "provider:physical_network"
      [] o = "provider_segmentation_id" -> "provider:segmentation_id"
      [] o = "external" -> "router:external"
      [] o = "mtu_size" -> "mtu"
      [] OTHER -> o

CannotBeUpdated(res) ==
    /\ res.kind = "fail_json"
    /\ res.msg[1] = "The following parameters cannot be updated: %s. You will need to use state: absent and recreate."

C3_ImmutableChangeRejected ==
    \A p \in DOMAIN pc :
        (/\ Done(p)
         /\ params[p].state = Present
         /\ FoundNetwork(p)
         /\ \E o \in ImmutableOptions :
                /\ params[p][o] # None
                /\ params[p][o] # found[p][2][RemoteFieldOf(o)])
        => /\ CannotBeUpdated(result[p])
           /\ CallsOf(p, Mutating) = {}
           /\ networks = before[p]

\* C3, for the values Python takes as true: these the code does reject.
C3_TruthyChangeRejected ==
    \A p \in DOMAIN pc :
        (/\ Done(p)
         /\ params[p].state = Present
         /\ FoundNetwork(p)
         /\ \E o \in ImmutableOptions :
                /\ Truthy(params[p][o])
                /\ params[p][o] # found[p][2][RemoteFieldOf(o)])
        => /\ CannotBeUpdated(result[p])
           /\ CallsOf(p, Mutating) = {}
           /\ networks = before[p]

(***************************************************************************)
(* C4. After a successful state=present invocation on an existing network,  *)
(* every updatable field the task supplies (not null) has the desired value *)
(* on the remote network; a supplied mtu_size that differs from the remote  *)
(* mtu is in the update payload and changed=true is reported.               *)
(***************************************************************************)
UpdatableOptions ==
    {"shared", "admin_state_up", "external", "mtu_size", "port_security_enabled",
     "dns_domain", "provider_segmentation_id"}

\* The network the invocation found, as the store has it now.
Remote(p) == CHOOSE n \in networks : n["id"] = found[p][2]["id"]

C4_UpdateConverges ==
    \A p \in DOMAIN pc :
        (/\ Done(p)
         /\ params[p].state = Present
         /\ FoundNetwork(p)
         /\ Exited(result[p]))
        => /\ \A o \in UpdatableOptions :
                  params[p][o] # None => Remote(p)[RemoteFieldOf(o)] = params[p][o]
           /\ (params[p].mtu_size # None /\ params[p].mtu_size # found[p][2]["mtu"])
              => /\ ReportsChanged(result[p], TRUE)
                 /\ \E i \in CallsOf(p, {"update_network"}) :
                        /\ "mtu" \in DOMAIN calls[p][i].attrs
                        /\ calls[p][i].attrs["mtu"] = params[p].mtu_size

\* C4 without mtu_size and without the values Python takes as false: these converge.
C4_ConvergesButMtu ==
    \A p \in DOMAIN pc :
        (/\ Done(p)
         /\ params[p].state = Present
         /\ FoundNetwork(p)
         /\ Exited(result[p]))
        => \A o \in UpdatableOptions \ {"mtu_size"} :
               (params[p][o] # None /\ (o = "provider_segmentation_id" => Truthy(params[p][o])))
               => Remote(p)[RemoteFieldOf(o)] = params[p][o]

(***************************************************************************)
(* C5. An optional field the task leaves out is in the payload of neither   *)
(* the create call nor the update call, and no payload holds a null.        *)
(***************************************************************************)
OptionalOptions ==
    {"provider_physical_network", "provider_network_type", "provider_segmentation_id",
     "project", "port_security_enabled", "mtu_size", "dns_domain"}

\* The payload keys that carry an option.
PayloadKeysOf(o) ==
    CASE o = "project" -> {"project_id", "tenant_id", "project"}
      [] o = "mtu_size" -> {"mtu_size", "mtu"}
      [] OTHER -> {o}

PayloadOmitsUnset(p, ops) ==
    \A i \in CallsOf(p, ops) :
        /\ \A o \in OptionalOptions :
               params[p][o] = None => PayloadKeysOf(o) \cap DOMAIN calls[p][i].attrs = {}
        /\ \A k \in DOMAIN calls[p][i].attrs : calls[p][i].attrs[k] # None

C5_PayloadOmitsUnset ==
    \A p \in DOMAIN pc : PayloadOmitsUnset(p, {"create_network", "update_network"})

\* C5 for the update call alone: the filter loop keeps nulls and unset options out.
C5_UpdateOmitsUnset ==
    \A p \in DOMAIN pc : PayloadOmitsUnset(p, {"update_network"})

(***************************************************************************)
(* C6. state=present on an existing network whose fields equal every        *)
(* candidate field (the options the task supplies, the three booleans and   *)
(* the resolved project): no update call is made and changed=false is       *)
(* reported, whatever the other fields of the remote network are.           *)
(***************************************************************************)
ComparedOptions ==
    {"shared", "admin_state_up", "external", "provider_physical_network",
     "provider_network_type", "provider_segmentation_id", "port_security_enabled",
     "mtu_size", "dns_domain"}

CandidateEqualsRemote(p) ==
    /\ \A o \in ComparedOptions :
           params[p][o] # None => params[p][o] = found[p][2][RemoteFieldOf(o)]
    /\ project_id[p] # None => project_id[p] = found[p][2]["tenant_id"]

C6_NoUpdateWhenEqual ==
    \A p \in DOMAIN pc :
        (/\ Done(p)
         /\ params[p].state = Present
         /\ FoundNetwork(p)
         /\ CandidateEqualsRemote(p))
        => /\ ReportsChanged(result[p], FALSE)
           /\ CallsOf(p, Mutating) = {}
           /\ networks = before[p]

\* A task that names no dns_domain and no port security meets a network that
\* another task gave a dns_domain, and whose port security the store chose.
C6_Witness ==
    \E p \in DOMAIN pc :
        /\ Done(p)
        /\ ~first[p].rerun
        /\ params[p].state = Present
        /\ FoundNetwork(p)
        /\ CandidateEqualsRemote(p)
        /\ params[p].dns_domain = None
        /\ found[p][2]["dns_domain"] = PyStr("example.org.")
        /\ params[p].port_security_enabled = None

C8_ProjectNotFound ==
    \A p \in DOMAIN pc :
        (/\ pc[p] # "idle"
         /\ params[p].project # None
         /\ get_project(params[p].project) = None)
        => /\ CallsOf(p, {"get_network"} \cup Mutating) = {}
           /\ networks = before[p]
           /\ pc[p] \in {"get_project", "done"}
           /\ Done(p) => /\ result[p] = fail_json(<<"Project %s could not be found",
                                                     params[p].project>>)
                         /\ Len(calls[p]) = 1
                         /\ calls[p][1].op = "get_project"

\* state=absent with an unknown project, while a network of the name exists.
C8_Witness ==
    \E p \in DOMAIN pc :
        /\ Done(p)
        /\ params[p].state = Absent
        /\ params[p].project = PyStr("ghost")
        /\ result[p].kind = "fail_json"
        /\ networks # {}

(***************************************************************************)
(* C9. The module reports changed=true exactly when the invocation made a   *)
(* mutating call, and the networks change only in invocations that report   *)
(* changed=true.                                                            *)
(***************************************************************************)
C9_ChangedIffMutated ==
    \A p \in DOMAIN pc :
        Done(p) =>
            /\ Exited(result[p]) =>
                   (ReportsChanged(result[p], TRUE) <=> CallsOf(p, Mutating) # {})
            /\ ReportsChanged(result[p], TRUE) => CallsOf(p, Mutating) # {}
            /\ networks # before[p] => ReportsChanged(result[p], TRUE)

\* An update was made and reported.
C9_Witness ==
    \E p \in DOMAIN pc :
        /\ Done(p)
        /\ CallsOf(p, {"update_network"}) # {}
        /\ networks # before[p]
        /\ ReportsChanged(result[p], TRUE)

(***************************************************************************)
(* C10. The order of the remote calls of one invocation: get_project first  *)
(* when a project is supplied (and not otherwise), then one get_network,    *)
(* then at most one mutating call, and nothing after it; an invocation that *)
(* exits has made its lookup.                                               *)
(***************************************************************************)
C10_CallOrder ==
    \A p \in DOMAIN pc :
        pc[p] # "idle" =>
            LET gp == IF params[p].project # None THEN 1 ELSE 0
            IN  /\ Len(calls[p]) <= gp + 2
                /\ CallsOf(p, {"get_project"}) \subseteq 1..gp
                /\ CallsOf(p, {"get_network"}) \subseteq {gp + 1}
                /\ CallsOf(p, Mutating) \subseteq {gp + 2}
                /\ (Len(calls[p]) >= 1 /\ gp = 1) => calls[p][1].op = "get_project"
                /\ (Done(p) /\ Exited(result[p])) => CallsOf(p, {"get_network"}) = {gp + 1}

\* get_project, get_network, then a mutating call.
C10_Witness ==
    \E p \in DOMAIN pc :
        /\ Done(p)
        /\ Exited(result[p])
        /\ Len(calls[p]) = 3
        /\ calls[p][3].op \in Mutating

(***************************************************************************)
(* C11. A state=present invocation that exits returns changed, the network  *)
(* as it is after the create or update (as found, when nothing changed) and *)
(* id, the id of that network; a state=absent invocation that exits returns *)
(* changed alone.                                                           *)
(***************************************************************************)
C11_ResultRecord ==
    \A p \in DOMAIN pc :
        (Done(p) /\ Exited(result[p])) =>
            LET out == result[p].out
            IN  /\ params[p].state = Present =>
                    /\ DOMAIN out = {"changed", "network", "id"}
                    /\ out["changed"] \in {PyBool(TRUE), PyBool(FALSE)}
                    /\ out["network"][1] = "dict"
                    /\ out["id"] = out["network"][2]["id"]
                    /\ out["network"][2] \in networks
                    /\ out["changed"] = PyBool(FALSE) => out["network"] = found[p]
                    /\ (out["changed"] = PyBool(TRUE) /\ FoundNetwork(p)) =>
                           /\ out["id"] = found[p][2]["id"]
                           /\ out["network"] # found[p]
                    /\ (out["changed"] = PyBool(TRUE) /\ FoundNothing(p)) =>
                           out["network"][2] \notin before[p]
                /\ params[p].state = Absent =>
                    /\ DOMAIN out = {"changed"}
                    /\ out["changed"] \in {PyBool(TRUE), PyBool(FALSE)}

\* An update has returned the network with the new value in it.
C11_Witness ==
    \E p \in DOMAIN pc :
        /\ Done(p)
        /\ Exited(result[p])
        /\ params[p].state = Present
        /\ FoundNetwork(p)
        /\ params[p].dns_domain = PyStr("example.org.")
        /\ found[p][2]["dns_domain"] = PyStr("")
        /\ result[p].out["network"][2]["dns_domain"] = PyStr("example.org.")

(***************************************************************************)
(* C12. The cannot-be-updated error names exactly the immutable fields that *)
(* were supplied and differ from the remote value, with the hint to remove  *)
(* and recreate.                                                            *)
(***************************************************************************)
Conflicting(p) ==
    {o \in ImmutableOptions :
        params[p][o] # None /\ params[p][o] # found[p][2][RemoteFieldOf(o)]}

C12_ErrorNamesConflicting ==
    \A p \in DOMAIN pc :
        (Done(p) /\ CannotBeUpdated(result[p])) =>
            {result[p].msg[2][i] : i \in 1..Len(result[p].msg[2])} = Conflicting(p)

\* C12's one part that holds: the error is given only when some field conflicts,
\* and the fields it names include every conflicting one that Python takes as true.
C12_ErrorNamesAtLeastConflicting ==
    \A p \in DOMAIN pc :
        (Done(p) /\ CannotBeUpdated(result[p])) =>
            /\ Conflicting(p) # {}
            /\ {o \in Conflicting(p) : Truthy(params[p][o])}
                  \subseteq {result[p].msg[2][i] : i \in 1..Len(result[p].msg[2])}

(***************************************************************************)
(* C13. The payload of an update call never holds a field whose candidate   *)
(* value is null or equals the remote value, never an immutable field,      *)
(* project_id or name, and every field it holds carries the candidate value *)
(* that was compared against the mapped remote field.                       *)
(***************************************************************************)
\* The option an update payload key stands for.
OptionOfKey(k) ==
    CASE k = "is_router_external" -> "external"
      [] k = "mtu" -> "mtu_size"
      [] OTHER -> k

C13_UpdatePayload ==
    \A p \in DOMAIN pc :
        \A i \in CallsOf(p, {"update_network"}) :
            LET attrs == calls[p][i].attrs
            IN  \A k \in DOMAIN attrs :
                    /\ k \notin ImmutableOptions \cup {"project_id", "tenant_id", "name"}
                    /\ OptionOfKey(k) \in UpdatableOptions
                    /\ attrs[k] # None
                    /\ attrs[k] = params[p][OptionOfKey(k)]
                    /\ attrs[k] # found[p][2][RemoteFieldOf(OptionOfKey(k))]

\* An update went out for the one differing field, under its payload name.
C13_Witness ==
    \E p \in DOMAIN pc :
        /\ Done(p)
        /\ Exited(result[p])
        /\ params[p].external = PyBool(TRUE)
        /\ \E i \in CallsOf(p, {"update_network"}) :
               /\ DOMAIN calls[p][i].attrs = {"is_router_external"}
               /\ calls[p][i].attrs["is_router_external"] = PyBool(TRUE)
               /\ found[p][2]["router:external"] = PyBool(FALSE)

(***************************************************************************)
(* C14. With state=present a create call is issued exactly when the lookup  *)
(* found no network.  Its payload always holds name, shared, admin_state_up *)
(* and is_router_external (the external option), with shared=false,         *)
(* admin_state_up=true and external=false when the task left them out, and  *)
(* holds project_id exactly when a project was supplied and resolved.       *)
(***************************************************************************)
\* The tasks the runtime turns into the parameters of invocation p.
TasksOf(p) == {args \in TaskArgs : argument_spec(args) = params[p]}

C14_CreatePayload ==
    \A p \in DOMAIN pc :
        /\ (Done(p) /\ params[p].state = Present /\ found[p] # NotLooked) =>
               (CallsOf(p, {"create_network"}) # {} <=> FoundNothing(p))
        /\ CallsOf(p, {"create_network"}) # {} => FoundNothing(p) /\ params[p].state = Present
        /\ \A i \in CallsOf(p, {"create_network"}) :
               LET attrs == calls[p][i].attrs
               IN  /\ {"name", "shared", "admin_state_up", "is_router_external"}
                          \subseteq DOMAIN attrs
                   /\ attrs["name"] = params[p].name
                   /\ attrs["is_router_external"] = params[p].external
                   /\ TasksOf(p) # {}
                   /\ \A args \in TasksOf(p) :
                          /\ attrs["shared"] =
                                 IF args.options["shared"] = None
                                 THEN PyBool(FALSE) ELSE args.options["shared"]
                          /\ attrs["admin_state_up"] =
                                 IF args.options["admin_state_up"] = None
                                 THEN PyBool(TRUE) ELSE args.options["admin_state_up"]
                          /\ attrs["is_router_external"] =
                                 IF args.options["external"] = None
                                 THEN PyBool(FALSE) ELSE args.options["external"]
                          /\ "project_id" \in DOMAIN attrs <=>
                                 /\ args.options["project"] # None
                                 /\ get_project(args.options["project"]) # None
                          /\ "project_id" \in DOMAIN attrs =>
                                 attrs["project_id"] =
                                     get_project(args.options["project"])[2]["id"]

\* A create has gone out for a task that named a project and nothing else.
C14_Witness ==
    \E p \in DOMAIN pc :
        /\ Done(p)
        /\ Exited(result[p])
        /\ params[p].project = PyStr("p1")
        /\ \E i \in CallsOf(p, {"create_network"}) :
               /\ calls[p][i].attrs["shared"] = PyBool(FALSE)
               /\ calls[p][i].attrs["admin_state_up"] = PyBool(TRUE)
               /\ calls[p][i].attrs["is_router_external"] = PyBool(FALSE)
               /\ "project_id" \in DOMAIN calls[p][i].attrs

(***************************************************************************)
(* C15. Every optional field the task supplied is a candidate with the      *)
(* supplied value, values Python takes as false included:                   *)
(* provider_segmentation_id=0 and an empty provider_physical_network or     *)
(* provider_network_type are sent on create and compared on update.         *)
(***************************************************************************)
ProviderOptions ==
    {"provider_physical_network", "provider_network_type", "provider_segmentation_id"}

\* Option o, where the task of invocation p supplied it, is sent on create and
\* compared on update.
IsCandidate(p, o) ==
    /\ \A i \in CallsOf(p, {"create_network"}) :
           \E k \in PayloadKeysOf(o) \cap DOMAIN calls[p][i].attrs :
               calls[p][i].attrs[k] = params[p][o]
    /\ (/\ Done(p)
        /\ params[p].state = Present
        /\ FoundNetwork(p)
        /\ params[p][o] # found[p][2][RemoteFieldOf(o)]) =>
           IF o \in ImmutableOptions
           THEN CannotBeUpdated(result[p])
           ELSE Exited(result[p]) =>
                    \E i \in CallsOf(p, {"update_network"}) :
                        /\ o \in DOMAIN calls[p][i].attrs
                        /\ calls[p][i].attrs[o] = params[p][o]

C15_SuppliedIsCandidate ==
    \A p \in DOMAIN pc :
        \A o \in ProviderOptions :
            (params[p] # NoParams /\ params[p][o] # None) => IsCandidate(p, o)

\* C15 for the values Python takes as true.
C15_TruthyIsCandidate ==
    \A p \in DOMAIN pc :
        \A o \in ProviderOptions :
            (params[p] # NoParams /\ Truthy(params[p][o])) => IsCandidate(p, o)

(***************************************************************************)
(* C16. With state=absent and a project, the network the delete call        *)
(* removes is the one the project-scoped lookup returned; networks of the   *)
(* same name in other projects stay as they were.                           *)
(***************************************************************************)
C16_AbsentRemovesFound ==
    \A p \in DOMAIN pc :
        (/\ Done(p)
         /\ params[p].state = Absent
         /\ params[p].project # None
         /\ CallsOf(p, {"delete_network"}) # {}) =>
            /\ FoundNetwork(p)
            /\ networks = before[p] \ {found[p][2]}

\* C16's part that holds: no network other than the one found is removed.
C16_OthersUnchanged ==
    \A p \in DOMAIN pc :
        (/\ Done(p)
         /\ params[p].state = Absent
         /\ params[p].project # None
         /\ CallsOf(p, {"delete_network"}) # {}) =>
            /\ FoundNetwork(p)
            /\ before[p] \ {found[p][2]} \subseteq networks
            /\ networks \subseteq before[p]

(***************************************************************************)
(* C17. Used one invocation at a time, from a store with at most one        *)
(* network per name and project, the store still has at most one network    *)
(* per name and project after any sequence of completed invocations.        *)
(***************************************************************************)
C17_Uniqueness ==
    \A n1, n2 \in networks :
        (n1["name"] = n2["name"] /\ n1["tenant_id"] = n2["tenant_id"]) => n1 = n2

\* A present task has been applied where its network already was, in a store
\* that has a network of that name in each of two projects, and made none.
C17_Witness ==
    \E p \in DOMAIN pc :
        /\ Done(p)
        /\ params[p].state = Present
        /\ params[p].project # None
        /\ ReportsChanged(result[p], FALSE)
        /\ \E n1, n2 \in networks :
               n1["name"] = n2["name"] /\ n1["tenant_id"] # n2["tenant_id"]

(***************************************************************************)
(* C18. Invocations are not coordinated.  When two state=present            *)
(* invocations for the same name, in the same project scope, both complete  *)
(* their lookup before either creates, both issue a create call and both    *)
(* report changed=true, and the store holds two networks of that name in    *)
(* that project: nothing keeps the one from creating after the other.       *)
(***************************************************************************)
\* Invocations p and q both finished a present run whose lookup, for the same
\* name in the same scope, found nothing.
BothFoundNothing(p, q) ==
    /\ p # q
    /\ Done(p) /\ Done(q)
    /\ params[p].state = Present /\ params[q].state = Present
    /\ params[p].name = params[q].name
    /\ project_id[p] = project_id[q]
    /\ FoundNothing(p) /\ FoundNothing(q)

\* The network invocation p returned.
Returned(p) == result[p].out["network"][2]

\* Where p's network was made first and is still in the store, q's lookup found
\* nothing although it would have matched that network: q looked before p
\* created, and p, the first to create, looked before q created.
C18_BothCreate ==
    \A p, q \in DOMAIN pc :
        BothFoundNothing(p, q) =>
            /\ CallsOf(p, {"create_network"}) # {} /\ CallsOf(q, {"create_network"}) # {}
            /\ ReportsChanged(result[p], TRUE) /\ ReportsChanged(result[q], TRUE)
            /\ Returned(p) # Returned(q)
            /\ (Returned(p)["id"] < Returned(q)["id"] /\ Returned(p) \in networks) =>
                   /\ Returned(q) \in networks
                   /\ Returned(p)["name"] = params[p].name
                   /\ Returned(q)["name"] = params[p].name
                   /\ Returned(p)["tenant_id"] = Returned(q)["tenant_id"]

\* Both invocations have created, and the store has two networks of one name
\* in one project.
C18_Witness ==
    \E p, q \in DOMAIN pc :
        /\ BothFoundNothing(p, q)
        /\ ReportsChanged(result[p], TRUE) /\ ReportsChanged(result[q], TRUE)
        /\ \E n1, n2 \in networks :
               /\ n1 # n2
               /\ n1["name"] = n2["name"]
               /\ n1["tenant_id"] = n2["tenant_id"]

====
